---- MODULE Spec2Model ----
(***************************************************************************)
(* Helios SBC telemetry service (app.py): the lock-guarded latest-value    *)
(* store (_state, _lock, _get_snapshot, _patch), the two ingestion         *)
(* backends (_start_mavsdk_backend, _start_dji_backend), the REST readers  *)
(* and the WebSocket distribution sessions (ws_telemetry).                 *)
(*                                                                         *)
(* Python threads are interleaved at statement granularity.  A `with       *)
(* _lock:` block holding two statements (as _patch does) is two steps with *)
(* the lock held in between; a block holding one statement is one step.    *)
(***************************************************************************)
EXTENDS Integers, Sequences, FiniteSets, TLC

VARIABLES
    _state,      \* the shared telemetry dict
    _lock,       \* "free", or "adapter" while the ingestion thread is inside _patch
    now,         \* the wall clock read by datetime.now()
    committed,   \* history: _state as it was when _lock was last released by _patch
    named,       \* history: per key, the value given by the latest _patch call naming it
    stamped,     \* history: the clock value when the latest _patch call stamped
    call,        \* history: the kwargs of the _patch call in progress
    rpc,         \* handler threads: "idle" or "respond"
    rkeys,       \* handler threads: the keys passed to _get_snapshot
    snap,        \* handler threads: the dict _get_snapshot returned
    shared,      \* handler threads: the keys of snap whose group dict is the very
                 \* object _state still refers to
    wspc,        \* ws_telemetry sessions: position in the handler's loop
    fields,      \* ws_telemetry sessions: the local `fields`
    msg,         \* ws_telemetry sessions: the local `msg`
    wsnap,       \* ws_telemetry sessions: the local `snap`
    sendFailed,  \* history: the sessions whose handler ended on a failed send
    dpc,         \* helios-dji thread: position in _run, "off" when not started
    sock,        \* helios-dji thread: the socket s
    buf,         \* helios-dji thread: the local `buf`, a sequence of byte tokens
    dropped,     \* history: a line was dropped as undecodable JSON on this connection
    lostOnce,    \* history: the thread has lost a connection it had established
    exc,         \* socket thread: the exception bound by `except ... as exc`
    old,         \* history: how many bytes at the head of buf came from an earlier connection
    discarded,   \* history: bytes of an earlier connection were cleared from buf
    darg,        \* helios-dji thread: the started_at argument evaluated for the next _patch
    mpc,         \* helios-mavsdk thread: position in _telemetry_loop, "off" when not started
    producers,   \* helios-mavsdk thread: the three _stream_* coroutines
    heard,       \* history: how the wait for the connection has gone so far
    connects,    \* history: the number of drone.connect calls
    marg,        \* helios-mavsdk thread: the started_at argument evaluated for the next _patch
    ppc,         \* threads calling _patch side by side: position in the call
    pkw,         \* threads calling _patch side by side: the kwargs of the call
    pseen,       \* history: the clock value when the thread made its call
    DRONE_TYPE   \* the module constant DRONE_TYPE, read from the environment at import

storeVars  == <<_state, _lock, now, committed, named, stamped, call>>
readerVars == <<rpc, rkeys, snap, shared>>
wsVars     == <<wspc, fields, msg, wsnap, sendFailed>>
djiVars    == <<dpc, sock, buf, dropped, lostOnce, exc, old, discarded, darg>>
mavVars    == <<mpc, producers, heard, connects, marg>>
prodVars   == <<ppc, pkw, pseen>>
vars       == <<storeVars, readerVars, wsVars, djiVars, mavVars, prodVars, DRONE_TYPE>>

----------------------------------------------------------------------------
(* Bounds *)

MaxClock   == 1    \* the clock stops advancing here
NumReaders == 1    \* concurrent handler threads calling _get_snapshot
MaxPartial == 1    \* byte tokens of an unterminated line that recv leaves in buf

Readers == 1..NumReaders

----------------------------------------------------------------------------
(* Values *)

\* Python's None in a slot that otherwise holds a number or a timestamp.
None == -1

Groups == {"position", "attitude", "battery"}

GroupFields(g) ==
    CASE g = "position" -> {"latitude_deg", "longitude_deg",
                            "absolute_altitude_m", "relative_altitude_m"}
      [] g = "attitude" -> {"roll_deg", "pitch_deg", "yaw_deg"}
      [] g = "battery"  -> {"voltage_v", "remaining_percent"}

\* A group dict whose every field holds v.
GroupOf(g, v) == [f \in GroupFields(g) |-> v]

\* The sample readings a source delivers: for every group a full reading, and
\* for position also a reading carrying latitude_deg only.
Readings(g) ==
    {GroupOf(g, 1)} \cup
    (IF g = "position"
     THEN {[GroupOf(g, None) EXCEPT !["latitude_deg"] = 2]}
     ELSE {})

\* The module-level _state literal.
InitialState ==
    [connected    |-> FALSE,
     connecting   |-> TRUE,
     started_at   |-> None,
     position     |-> GroupOf("position", None),
     attitude     |-> GroupOf("attitude", None),
     battery      |-> GroupOf("battery", None),
     last_updated |-> None]

----------------------------------------------------------------------------
(* The store: _get_snapshot and _patch *)

SeqToSet(s) == {s[i] : i \in DOMAIN s}

\* `with _lock:` can be entered.
\* LockFreeOff is the faulty variant in which the lock is not consulted.
LockFreeOff(lk) == TRUE
LockFree(lk) == lk = "free"

\* _get_snapshot(*keys), evaluated on the dict s inside the lock.
_get_snapshot(keys, s) ==
    IF keys # <<>>
    THEN [k \in SeqToSet(keys) \cap DOMAIN s |-> s[k]]
    ELSE s

\* _state.update(kwargs)
\* DictUpdateReset is the faulty variant in which keys not named fall back to their initial value.
DictUpdateReset(s, kwargs) ==
    [k \in DOMAIN s \cup DOMAIN kwargs |->
        IF k \in DOMAIN kwargs THEN kwargs[k] ELSE InitialState[k]]
\* DictUpdateKeepFirst is the faulty variant in which a key already written is not overwritten.
DictUpdateKeepFirst(s, kwargs) ==
    [k \in DOMAIN s \cup DOMAIN kwargs |->
        IF k \in DOMAIN kwargs /\ s[k] = InitialState[k] THEN kwargs[k] ELSE s[k]]
DictUpdate(s, kwargs) ==
    [k \in DOMAIN s \cup DOMAIN kwargs |->
        IF k \in DOMAIN kwargs THEN kwargs[k] ELSE s[k]]

\* _state["last_updated"] = datetime.now(timezone.utc).isoformat()
Stamp(s, t) == [s EXCEPT !["last_updated"] = t]

NoCall == [k \in {} |-> None]

\* The clock value _patch writes into last_updated, seen being the value the
\* clock had when the caller made the call and clock the value it has at the
\* second statement: datetime.now is evaluated there, inside the lock.
\* StampTimeAtCall is the faulty variant in which the time is taken when the call is made.
StampTimeAtCall(seen, clock) == seen
StampTime(seen, clock) == clock

\* What a dict sn obtained earlier from _get_snapshot shows once
\* _state.update(kwargs) has run, sh being the keys under which sn and _state
\* referred to one group object: update binds the keys of _state to the
\* objects of kwargs and writes into no object, so sn shows what it showed.
\* SeenAfterUpdateInPlace is the faulty variant in which the groups named are
\* written into the objects _state refers to.
SeenAfterUpdateInPlace(sn, sh, kwargs) ==
    [k \in DOMAIN sn |-> IF k \in sh \cap DOMAIN kwargs THEN kwargs[k] ELSE sn[k]]
SeenAfterUpdate(sn, sh, kwargs) == sn

\* _patch(**kwargs) called by thread who, first statement: the lock is taken
\* and the kwargs merged; a dict a handler holds stops sharing the group
\* objects the call replaces.
PatchBeginBy(who, kwargs) ==
    /\ LockFree(_lock)
    /\ _lock' = who
    /\ _state' = DictUpdate(_state, kwargs)
    /\ named' = [k \in DOMAIN named |->
                    IF k \in DOMAIN kwargs THEN kwargs[k] ELSE named[k]]
    /\ call' = kwargs
    /\ snap' = [r \in Readers |-> SeenAfterUpdate(snap[r], shared[r], kwargs)]
    /\ shared' = [r \in Readers |-> shared[r] \ DOMAIN kwargs]
    /\ UNCHANGED <<now, committed, stamped>>

\* _patch(**kwargs), second statement: the stamp; the lock is released on exit.
PatchEndBy(who, seen) ==
    /\ _lock = who
    /\ _state' = Stamp(_state, StampTime(seen, now))
    /\ _lock' = "free"
    /\ committed' = _state'
    /\ stamped' = StampTime(seen, now)
    /\ call' = NoCall
    /\ UNCHANGED <<now, named, snap, shared>>

\* The two statements as the ingestion thread runs them.
PatchBegin(kwargs) == PatchBeginBy("adapter", kwargs)
PatchEnd == PatchEndBy("adapter", now)

\* The ingestion thread is between the two statements of _patch.
AdapterInPatch == _lock = "adapter"

\* The wall clock advances.
Tick ==
    /\ now < MaxClock
    /\ now' = now + 1
    /\ UNCHANGED <<_state, _lock, committed, named, stamped, call>>

InitStore ==
    /\ _state = InitialState
    /\ _lock = "free"
    /\ now = 0
    /\ committed = InitialState
    /\ named = [k \in DOMAIN InitialState \ {"last_updated"} |-> InitialState[k]]
    /\ stamped = None
    /\ call = NoCall

----------------------------------------------------------------------------
(* The ingestion thread seen from the store: the _patch calls it can make *)

\* The keyword arguments of the status _patch calls.
StatusCalls(t) ==
    { [connected |-> FALSE, connecting |-> FALSE],
      [connected |-> TRUE, connecting |-> FALSE, started_at |-> t],
      [connecting |-> TRUE, connected |-> FALSE] }

\* The keyword arguments of the telemetry _patch calls: one group per call
\* from the MAVSDK producers, any non-empty set of groups from a DJI frame.
GroupCalls ==
    UNION { { u \in [G -> UNION {Readings(g) : g \in Groups}] :
                  \A g \in G : u[g] \in Readings(g) } :
            G \in SUBSET Groups \ {{}} }

PatchCalls(t) == StatusCalls(t) \cup GroupCalls

\* The clock values a started_at argument can hold when the call takes the
\* lock: the argument is evaluated before _patch is entered.
ArgTimes == 0..now

\* The active backend calls _patch.
AdapterPatch ==
    /\ \E t \in ArgTimes : \E kwargs \in PatchCalls(t) : PatchBegin(kwargs)
    /\ UNCHANGED <<rpc, rkeys, wsVars, djiVars, mavVars, prodVars, DRONE_TYPE>>

AdapterPatchEnd ==
    /\ PatchEnd
    /\ UNCHANGED <<rpc, rkeys, wsVars, djiVars, mavVars, prodVars, DRONE_TYPE>>

\* The calls the backend makes while the REST handlers are being served: the
\* status calls, a frame with position and attitude, and a battery reading.
ServedCalls(t) ==
    StatusCalls(t) \cup
    { [g \in G |-> GroupOf(g, 1)] : G \in {{"position", "attitude"}, {"battery"}} }

ServedPatch ==
    /\ \E t \in ArgTimes : \E kwargs \in ServedCalls(t) : PatchBegin(kwargs)
    /\ UNCHANGED <<rpc, rkeys, wsVars, djiVars, mavVars, prodVars, DRONE_TYPE>>

ClockTick ==
    /\ Tick
    /\ UNCHANGED <<readerVars, wsVars, djiVars, mavVars, prodVars, DRONE_TYPE>>

----------------------------------------------------------------------------
(* _patch called by several threads side by side *)

Producers == {"p1", "p2"}

\* The calls these threads make: a status-only call and two telemetry calls.
ProducerCalls ==
    { [connected |-> FALSE, connecting |-> FALSE],
      [position |-> GroupOf("position", 1)],
      [battery |-> GroupOf("battery", 1)] }

ProdOthers == <<rpc, rkeys, wsVars, djiVars, mavVars, DRONE_TYPE>>

\* Thread p calls _patch and waits at `with _lock:`.
ProducerCall(p) ==
    /\ ppc[p] = "idle"
    /\ \E kwargs \in ProducerCalls : pkw' = [pkw EXCEPT ![p] = kwargs]
    /\ ppc' = [ppc EXCEPT ![p] = "enter"]
    /\ pseen' = [pseen EXCEPT ![p] = now]
    /\ UNCHANGED <<storeVars, snap, shared, ProdOthers>>

\* Thread p gets the lock and runs _state.update(kwargs).
ProducerEnter(p) ==
    /\ ppc[p] = "enter"
    /\ PatchBeginBy(p, pkw[p])
    /\ ppc' = [ppc EXCEPT ![p] = "stamp"]
    /\ UNCHANGED <<pkw, pseen, ProdOthers>>

\* Thread p stamps last_updated and leaves the lock.
ProducerStamp(p) ==
    /\ ppc[p] = "stamp"
    /\ PatchEndBy(p, pseen[p])
    /\ ppc' = [ppc EXCEPT ![p] = "idle"]
    /\ pkw' = [pkw EXCEPT ![p] = NoCall]
    /\ UNCHANGED <<pseen, ProdOthers>>

ProducerTick ==
    /\ Tick
    /\ UNCHANGED <<prodVars, snap, shared, ProdOthers>>

InitProducers ==
    /\ ppc = [p \in Producers |-> "idle"]
    /\ pkw = [p \in Producers |-> NoCall]
    /\ pseen = [p \in Producers |-> 0]

----------------------------------------------------------------------------
(* Handler threads that read: api_telemetry (and ws_telemetry with no       *)
(* filter), api_position, api_attitude, api_battery, api_status            *)

StatusKeys == <<"connected", "connecting", "started_at", "last_updated">>

GetCalls ==
    { <<"position", "attitude", "battery", "last_updated">>,
      <<"position">>,
      <<"attitude">>,
      <<"battery">>,
      StatusKeys }

NoSnap == [k \in {} |-> None]

\* The dict comprehension of _get_snapshot copies the top level only: a group
\* dict in the result is the object _state refers to.
SharedBy(keys) == SeqToSet(keys) \cap Groups

\* A handler, one of those making the calls in `calls`, runs
\* snap = _get_snapshot(...): one statement inside the lock.
ReaderGetOf(r, calls) ==
    /\ rpc[r] = "idle"
    /\ LockFree(_lock)
    /\ \E keys \in calls :
          /\ rkeys' = [rkeys EXCEPT ![r] = keys]
          /\ snap' = [snap EXCEPT ![r] = _get_snapshot(keys, _state)]
          /\ shared' = [shared EXCEPT ![r] = SharedBy(keys)]
    /\ rpc' = [rpc EXCEPT ![r] = "respond"]
    /\ UNCHANGED <<storeVars, wsVars, djiVars, mavVars, prodVars, DRONE_TYPE>>

\* Any of the five REST handlers.
ReaderGet(r) == ReaderGetOf(r, GetCalls)

\* What the environment holds under DRONE_TYPE in this model: nothing, the
\* two documented values (one of them also in capitals) and one that is
\* neither.
EnvDroneTypes == {"unset", "DJI", "dji", "mavsdk", "px4"}

\* str.lower on those values.
Lower(e) == IF e = "DJI" THEN "dji" ELSE e

\* os.getenv("DRONE_TYPE", "mavsdk").lower()
GetDroneType(e) == IF e = "unset" THEN Lower("mavsdk") ELSE Lower(e)

DroneTypes == {GetDroneType(e) : e \in EnvDroneTypes}

\* WS_RATE_HZ = float(os.getenv("WS_RATE_HZ", "10")) with the variable unset:
\* the number ten.
WS_RATE_HZ == 10

\* The three entries api_status writes into snap.
ConfigEntries ==
    [backend       |-> DRONE_TYPE,
     drone_address |-> IF DRONE_TYPE = "mavsdk" THEN "DRONE_ADDRESS" ELSE "DJI_SOCK_PATH",
     ws_rate_hz    |-> WS_RATE_HZ]

\* dict d after d[k] = entries[k] for every k.
WithEntries(d, entries) ==
    [k \in DOMAIN d \cup DOMAIN entries |->
        IF k \in DOMAIN entries THEN entries[k] ELSE d[k]]

\* _state once a handler has written entries into the dict _get_snapshot
\* gave it: that dict is a new one, so _state is as it was.
\* StoreAfterSnapWriteAliased is the faulty variant in which _get_snapshot hands out _state itself.
StoreAfterSnapWriteAliased(s, entries) == WithEntries(s, entries)
StoreAfterSnapWrite(s, entries) == s

\* api_status: snap["backend"] = ...; snap["drone_address"] = ...;
\* snap["ws_rate_hz"] = ...
ReaderAddConfig(r) ==
    /\ rpc[r] = "respond"
    /\ rkeys[r] = StatusKeys
    /\ snap' = [snap EXCEPT ![r] = WithEntries(snap[r], ConfigEntries)]
    /\ _state' = StoreAfterSnapWrite(_state, ConfigEntries)
    /\ rpc' = [rpc EXCEPT ![r] = "reply"]
    /\ UNCHANGED <<rkeys, shared, _lock, now, committed, named, stamped, call>>
    /\ UNCHANGED <<wsVars, djiVars, mavVars, prodVars, DRONE_TYPE>>

\* The handler serialises snap and hands it to its client.
ReaderRespond(r) ==
    /\ \/ rpc[r] = "respond" /\ rkeys[r] # StatusKeys
       \/ rpc[r] = "reply"
    /\ rpc' = [rpc EXCEPT ![r] = "idle"]
    /\ rkeys' = [rkeys EXCEPT ![r] = <<>>]
    /\ snap' = [snap EXCEPT ![r] = NoSnap]
    /\ shared' = [shared EXCEPT ![r] = {}]
    /\ UNCHANGED <<storeVars, wsVars, djiVars, mavVars, prodVars, DRONE_TYPE>>

InitReaders ==
    /\ rpc = [r \in Readers |-> "idle"]
    /\ rkeys = [r \in Readers |-> <<>>]
    /\ snap = [r \in Readers |-> NoSnap]
    /\ shared = [r \in Readers |-> {}]

----------------------------------------------------------------------------
(* JSON texts and the Python operations ws_telemetry applies to them *)

JStr(x)      == [t |-> "str", v |-> x]
JNum(n)      == [t |-> "num", v |-> n]
JList(items) == [t |-> "list", v |-> items]
JObj(ks, f)  == [t |-> "obj", keys |-> ks, v |-> f]
JSONDecodeError == [t |-> "JSONDecodeError"]

\* The control messages a client sends in this model.
Messages ==
    { "{\"subscribe\": [\"position\"]}",
      "{\"subscribe\": [\"all\"]}",
      "{\"subscribe\": [\"attitude\", \"battery\"]}",
      "{\"subscribe\": [\"bogus\"]}",
      "{\"subscribe\": []}",
      "{\"subscribe\": [\"connected\", \"battery\"]}",
      "{\"subscribe\": \"position\"}",
      "{\"subscribe\": 5}",
      "{}",
      "[1]",
      "not-json",
      "" }

Subscribe(x) == JObj(<<"subscribe">>, [k \in {"subscribe"} |-> x])

\* json.loads on the texts above.
json_loads(text) ==
    CASE text = "{\"subscribe\": [\"position\"]}" ->
            Subscribe(JList(<<JStr("position")>>))
      [] text = "{\"subscribe\": [\"all\"]}" ->
            Subscribe(JList(<<JStr("all")>>))
      [] text = "{\"subscribe\": [\"attitude\", \"battery\"]}" ->
            Subscribe(JList(<<JStr("attitude"), JStr("battery")>>))
      [] text = "{\"subscribe\": [\"bogus\"]}" ->
            Subscribe(JList(<<JStr("bogus")>>))
      [] text = "{\"subscribe\": []}" ->
            Subscribe(JList(<<>>))
      [] text = "{\"subscribe\": [\"connected\", \"battery\"]}" ->
            Subscribe(JList(<<JStr("connected"), JStr("battery")>>))
      [] text = "{\"subscribe\": \"position\"}" ->
            Subscribe(JStr("position"))
      [] text = "{\"subscribe\": 5}" ->
            Subscribe(JNum(5))
      [] text = "{}" ->
            JObj(<<>>, [k \in {} |-> None])
      [] text = "[1]" ->
            JList(<<JNum(1)>>)
      [] OTHER -> JSONDecodeError

\* The characters of the Python strings that occur as values above.
Chars(x) ==
    CASE x = "position" -> <<"p", "o", "s", "i", "t", "i", "o", "n">>
      [] x = "all"      -> <<"a", "l", "l">>
      [] OTHER          -> <<x>>

IsSubstring(a, b) ==
    \E i \in 0..(Len(b) - Len(a)) : SubSeq(b, i + 1, i + Len(a)) = a

\* `x in container` raises TypeError unless the container is a list, str or dict.
SupportsIn(c) == c.t \in {"list", "str", "obj"}

\* `x in container` for a Python str x.
PyIn(x, c) ==
    CASE c.t = "list" -> \E i \in DOMAIN c.v : c.v[i] = JStr(x)
      [] c.t = "str"  -> IsSubstring(Chars(x), Chars(c.v))
      [] c.t = "obj"  -> x \in DOMAIN c.v

\* The items `for s in container` yields, as JSON values.
PyIter(c) ==
    CASE c.t = "list" -> c.v
      [] c.t = "str"  -> [i \in DOMAIN Chars(c.v) |-> JStr(Chars(c.v)[i])]
      [] c.t = "obj"  -> [i \in DOMAIN c.keys |-> JStr(c.keys[i])]

ValidNames == {"position", "attitude", "battery"}

\* [s for s in subs if s in ("position", "attitude", "battery")]
\* IsAnyName is the faulty variant in which every string is kept.
IsAnyName(e) == e.t = "str"
IsValidName(e) == e.t = "str" /\ e.v \in ValidNames
Unwrap(items) == [i \in DOMAIN items |-> items[i].v]
ListComp(subs) == Unwrap(SelectSeq(PyIter(subs), IsValidName))

----------------------------------------------------------------------------
(* ws_telemetry: one handler invocation per connected client *)

Sessions == {"ws1", "ws2"}

\* The local `fields`: None, or a list of names.
FieldsNone == [is_none |-> TRUE, items |-> <<>>]
FieldsList(items) == [is_none |-> FALSE, items |-> items]

\* The local `msg`: <<>> for None, <<text>> for a received text.
NoMsg == <<>>

\* Python truthiness of `msg` and of `fields`.
MsgTruthy(m) == m # NoMsg /\ m[1] # ""
FieldsTruthy(f) == ~f.is_none /\ f.items # <<>>

\* The value of `fields` after the try block has handled msg.
FilterAfter(f, m) ==
    IF ~MsgTruthy(m) THEN f
    ELSE LET payload == json_loads(m[1]) IN
         IF payload = JSONDecodeError THEN f          \* except JSONDecodeError
         ELSE IF payload.t # "obj" THEN f             \* except AttributeError
         ELSE LET subs == IF "subscribe" \in DOMAIN payload.v
                          THEN payload.v["subscribe"]
                          ELSE JList(<<JStr("all")>>)
              IN  IF ~SupportsIn(subs) THEN f         \* TypeError: outer except
                  ELSE IF PyIn("all", subs) THEN FieldsNone
                  ELSE FieldsList(ListComp(subs))

\* The keys ws_telemetry passes to _get_snapshot.
\* SnapshotKeysUnfiltered is the faulty variant in which the filter is ignored.
SnapshotKeysUnfiltered(f) ==
    <<"position", "attitude", "battery", "last_updated">>
SnapshotKeys(f) ==
    IF FieldsTruthy(f)
    THEN f.items \o <<"last_updated">>
    ELSE <<"position", "attitude", "battery", "last_updated">>

\* A client connects: the handler starts with fields = None.
WsOpen(s) ==
    /\ wspc[s] = "closed"
    /\ wspc' = [wspc EXCEPT ![s] = "receive"]
    /\ fields' = [fields EXCEPT ![s] = FieldsNone]
    /\ sendFailed' = sendFailed \ {s}
    /\ UNCHANGED <<msg, wsnap, storeVars, readerVars, djiVars, mavVars, prodVars, DRONE_TYPE>>

\* msg = ws.receive(timeout=0) returns one of `msgs`: a text the client
\* sent, or None.
WsReceiveOf(s, msgs) ==
    /\ wspc[s] = "receive"
    /\ \E m \in msgs :
          msg' = [msg EXCEPT ![s] = m]
    /\ wspc' = [wspc EXCEPT ![s] = "filter"]
    /\ UNCHANGED <<fields, wsnap, sendFailed, storeVars, readerVars, djiVars, mavVars, prodVars, DRONE_TYPE>>

WsReceive(s) == WsReceiveOf(s, {NoMsg} \cup {<<text>> : text \in Messages})

\* The body of the try block.
WsFilter(s) ==
    /\ wspc[s] = "filter"
    /\ fields' = [fields EXCEPT ![s] = FilterAfter(fields[s], msg[s])]
    /\ msg' = [msg EXCEPT ![s] = NoMsg]
    /\ wspc' = [wspc EXCEPT ![s] = "snapshot"]
    /\ UNCHANGED <<wsnap, sendFailed, storeVars, readerVars, djiVars, mavVars, prodVars, DRONE_TYPE>>

\* The lock when _get_snapshot has returned to session s: the `with _lock:`
\* block is left before the handler goes on to ws.send.
\* LockAfterGetKept is the faulty variant in which the session keeps the lock.
LockAfterGetKept(lk, s) == s
LockAfterGet(lk, s) == lk

\* snap = _get_snapshot(...)
WsSnapshot(s) ==
    /\ wspc[s] = "snapshot"
    /\ LockFree(_lock)
    /\ wsnap' = [wsnap EXCEPT ![s] = _get_snapshot(SnapshotKeys(fields[s]), _state)]
    /\ wspc' = [wspc EXCEPT ![s] = "send"]
    /\ _lock' = LockAfterGet(_lock, s)
    /\ UNCHANGED <<_state, now, committed, named, stamped, call>>
    /\ UNCHANGED <<fields, msg, sendFailed, readerVars, djiVars, mavVars, prodVars, DRONE_TYPE>>

\* ws.send(json.dumps(snap)) succeeds; time.sleep(interval).
WsSendOk(s) ==
    /\ wspc[s] = "send"
    /\ wspc' = [wspc EXCEPT ![s] = "receive"]
    /\ wsnap' = [wsnap EXCEPT ![s] = NoSnap]
    /\ UNCHANGED <<fields, msg, sendFailed, storeVars, readerVars, djiVars, mavVars, prodVars, DRONE_TYPE>>

\* ws.send raises: break, and the handler returns.
\* BreakAll is the faulty variant in which every session ends.
BreakAll(pcs, s) == [t \in DOMAIN pcs |-> "closed"]
Break(pcs, s) == [pcs EXCEPT ![s] = "closed"]

WsSendFail(s) ==
    /\ wspc[s] = "send"
    /\ wspc' = Break(wspc, s)
    /\ wsnap' = [t \in Sessions |-> IF wspc'[t] = "closed" THEN NoSnap ELSE wsnap[t]]
    /\ fields' = [t \in Sessions |-> IF wspc'[t] = "closed" THEN FieldsNone ELSE fields[t]]
    /\ sendFailed' = sendFailed \cup {s}
    /\ UNCHANGED <<msg, storeVars, readerVars, djiVars, mavVars, prodVars, DRONE_TYPE>>

InitWs ==
    /\ wspc = [s \in Sessions |-> "closed"]
    /\ fields = [s \in Sessions |-> FieldsNone]
    /\ msg = [s \in Sessions |-> NoMsg]
    /\ wsnap = [s \in Sessions |-> NoSnap]
    /\ sendFailed = {}

\* The _patch calls of the backend while sessions are served: a connect and
\* position readings.
WsPatchCalls(t) ==
    { [connected |-> TRUE, connecting |-> FALSE, started_at |-> t] } \cup
    { [position |-> r] : r \in Readings("position") }

WsAdapterPatch ==
    /\ \E t \in ArgTimes : \E kwargs \in WsPatchCalls(t) : PatchBegin(kwargs)
    /\ UNCHANGED <<rpc, rkeys, wsVars, djiVars, mavVars, prodVars, DRONE_TYPE>>

----------------------------------------------------------------------------
(* The bytes the telemetry-monitor bridge writes, as tokens *)

NL == "\\n"     \* b"\n"
SP == " "       \* a whitespace byte

\* Byte strings that are one JSON text each.
TokPosAtt  == "{\"position\": {<full>}, \"attitude\": {<full>}}"
TokBattery == "{\"battery\": {<full>}}"
TokLatOnly == "{\"position\": {\"latitude_deg\": 2}}"
TokNoGroup == "{\"seq\": 7}"
TokEmptyGr == "{\"position\": {}}"
TokNumGr   == "{\"position\": 5}"
TokArray   == "[1]"
\* The two halves of TokBattery, cut after the colon of "battery".
TokHalf1   == "{\"battery\":"
TokHalf2   == "{<full>}}"
\* Bytes that are no JSON text, and a byte that is no UTF-8.
TokGarbage == "not-json"
TokBadUtf8 == "\\x80"

UnicodeDecodeError == [t |-> "UnicodeDecodeError"]
JNull == [t |-> "null"]

\* A JSON object holding the full reading of group g.
JReading(g, r) == JObj(<<>>, r)

DataOf(groups) == JObj(<<>>, groups)

\* json.loads(line) for a stripped, non-empty line of tokens.
StripEnds(line) ==
    LET keep == {i \in DOMAIN line : line[i] # SP} IN
    IF keep = {} THEN <<>>
    ELSE LET lo == CHOOSE i \in keep : \A j \in keep : i <= j
             hi == CHOOSE i \in keep : \A j \in keep : j <= i
         IN  SubSeq(line, lo, hi)

json_loads_line(line) ==
    LET core == SelectSeq(line, LAMBDA b : b # SP) IN
    IF \E i \in DOMAIN line : line[i] = TokBadUtf8 THEN UnicodeDecodeError
    ELSE IF core = <<TokHalf1, TokHalf2>> \/ core = <<TokBattery>> THEN
        DataOf([battery |-> JReading("battery", GroupOf("battery", 1))])
    ELSE IF Len(line) # 1 THEN JSONDecodeError
    ELSE CASE line[1] = TokPosAtt ->
                DataOf([position |-> JReading("position", GroupOf("position", 1)),
                        attitude |-> JReading("attitude", GroupOf("attitude", 1))])
           [] line[1] = TokLatOnly ->
                DataOf([position |-> JObj(<<>>, [latitude_deg |-> 2])])
           [] line[1] = TokNoGroup -> DataOf([seq |-> JNum(7)])
           [] line[1] = TokEmptyGr ->
                DataOf([position |-> JObj(<<>>, [k \in {} |-> None])])
           [] line[1] = TokNumGr   -> DataOf([position |-> JNum(5)])
           [] line[1] = TokArray   -> JList(<<JNum(1)>>)
           [] OTHER -> JSONDecodeError

\* Python truthiness of a decoded JSON value.
Truthy(j) ==
    CASE j.t = "obj"  -> DOMAIN j.v # {}
      [] j.t = "list" -> j.v # <<>>
      [] j.t = "num"  -> j.v # 0
      [] j.t = "str"  -> j.v # ""
      [] OTHER -> FALSE

----------------------------------------------------------------------------
(* _start_dji_backend: _apply_frame and the helios-dji thread's _run *)

AttributeError == [t |-> "AttributeError"]

\* d.get(key) on a JSON value: None when the key is absent.
DictGet(d, key) == IF key \in DOMAIN d.v THEN d.v[key] ELSE JNull

\* The groups of data whose value is truthy.
PresentGroups(data) == {g \in Groups : Truthy(DictGet(data, g))}

\* The dict _apply_frame builds for group g from the sub-object sub.
GroupFrom(g, sub) ==
    [f \in GroupFields(g) |-> IF f \in DOMAIN sub.v THEN sub.v[f] ELSE None]

\* _apply_frame(data): the `updates` dict it passes to _patch, or the
\* AttributeError raised by .get on a value that is no dict.
ApplyFrame(data) ==
    IF data.t # "obj" THEN AttributeError
    ELSE IF \E g \in PresentGroups(data) : DictGet(data, g).t # "obj"
    THEN AttributeError
    ELSE [g \in PresentGroups(data) |-> GroupFrom(g, DictGet(data, g))]

HasLine(b) == \E i \in DOMAIN b : b[i] = NL
FirstNL(b) == CHOOSE i \in DOMAIN b : b[i] = NL /\ \A j \in 1..(i - 1) : b[j] # NL
\* line, buf = buf.split(b"\n", 1)
HeadLine(b) == SubSeq(b, 1, FirstNL(b) - 1)
TailBuf(b)  == SubSeq(b, FirstNL(b) + 1, Len(b))

\* What the loop body does with the first line of b:
\*   "blank"   the stripped line is empty
\*   "drop"    json.loads raised JSONDecodeError
\*   "raise"   an exception the except clause of _run does not name
\*   "noop"    _apply_frame found no group
\*   "patch"   _apply_frame calls _patch(**updates)
LineOutcome(b) ==
    LET line == StripEnds(HeadLine(b)) IN
    IF line = <<>> THEN [kind |-> "blank"]
    ELSE LET data == json_loads_line(line) IN
         IF data = JSONDecodeError THEN [kind |-> "drop"]
         ELSE IF data = UnicodeDecodeError THEN [kind |-> "raise"]
         ELSE LET updates == ApplyFrame(data) IN
              IF updates = AttributeError THEN [kind |-> "raise"]
              ELSE IF DOMAIN updates = {} THEN [kind |-> "noop"]
              ELSE [kind |-> "patch", updates |-> updates]

\* The results of s.recv(4096) in this model.
Chunks ==
    { <<TokPosAtt, NL>>, <<TokBattery, NL>>, <<TokLatOnly, NL>>,
      <<TokHalf1>>, <<TokHalf2, NL>>,
      <<TokGarbage, NL, TokBattery, NL>>,
      <<TokPosAtt, NL, TokLatOnly, NL>>,
      <<SP, NL>>, <<NL>>,
      <<TokGarbage>>,
      <<TokNoGroup, NL>>, <<TokEmptyGr, NL>>,
      <<TokNumGr, NL>>, <<TokArray, NL>>, <<TokBadUtf8, NL>> }

\* The bytes left in b once every complete line is split off.
RECURSIVE Residual(_)
Residual(b) == IF HasLine(b) THEN Residual(TailBuf(b)) ELSE b

AfterLine(b) == IF HasLine(b) THEN "split" ELSE "recv"

\* The thread is between the two statements of a _patch call.
DjiInPatch == _lock = "adapter"

DjiOthers == <<rpc, rkeys, wsVars, mavVars, prodVars, DRONE_TYPE>>

\* _patch(connecting=True, connected=False) at the top of the outer loop.
DjiTopPatch ==
    /\ dpc = "top"
    /\ \/ /\ PatchBegin([connecting |-> TRUE, connected |-> FALSE])
          /\ UNCHANGED dpc
       \/ /\ PatchEnd
          /\ dpc' = "connect"
    /\ UNCHANGED <<sock, buf, dropped, lostOnce, exc, old, discarded, darg, DjiOthers>>

\* s = socket.socket(...); s.connect(DJI_SOCK_PATH); s.settimeout(5.0)
DjiConnectOk ==
    /\ dpc = "connect"
    /\ dpc' = "connected"
    /\ sock' = "open"
    /\ UNCHANGED <<buf, dropped, lostOnce, exc, old, discarded, darg, storeVars, snap, shared, DjiOthers>>

\* The exception classes the except clause of _run names.
\* CaughtOnlyConnectionError is the faulty variant that names ConnectionError alone.
CaughtOnlyConnectionError(e) == e = "ConnectionError"
Caught(e) == e \in {"ConnectionError", "OSError", "socket.timeout"}

\* Where _run continues when e is raised inside the try block.
Raised(e) == IF Caught(e) THEN "except" ELSE "dead"

\* s.connect raises: ConnectionRefusedError (a ConnectionError) when nobody
\* listens, another OSError when the path does not exist.
DjiConnectFail ==
    /\ dpc = "connect"
    /\ \E e \in {"ConnectionError", "OSError"} :
          /\ exc' = e
          /\ dpc' = Raised(e)
    /\ sock' = "unconnected"
    /\ UNCHANGED <<buf, dropped, lostOnce, old, discarded, darg, storeVars, snap, shared, DjiOthers>>

\* The keyword arguments of the _patch call made once s.connect has returned.
\* DjiConnectedKwargsFlagOnly is the faulty variant that leaves connecting out.
DjiConnectedKwargsFlagOnly(t) == [connected |-> TRUE, started_at |-> t]
DjiConnectedKwargs(t) == [connecting |-> FALSE, connected |-> TRUE, started_at |-> t]

\* buf = b"" once the connection is made.
\* BufAfterConnectKept is the faulty variant in which buf is left as it is.
BufAfterConnectKept(b) == b
BufAfterConnect(b) == <<>>

\* started_at=datetime.now(timezone.utc).isoformat(): the argument is
\* evaluated before _patch is entered.
DjiConnectedArgs ==
    /\ dpc = "connected"
    /\ darg' = now
    /\ dpc' = "announce"
    /\ UNCHANGED <<sock, buf, dropped, lostOnce, exc, old, discarded, storeVars, snap, shared, DjiOthers>>

\* _patch(connecting=False, connected=True, started_at=...) with the argument
\* already evaluated; the call returns with the lock released.
DjiConnectedPatch ==
    /\ dpc = "announce"
    /\ \/ /\ PatchBegin(DjiConnectedKwargs(darg))
          /\ UNCHANGED dpc
       \/ /\ PatchEnd
          /\ dpc' = "clear"
    /\ UNCHANGED <<sock, buf, dropped, lostOnce, exc, old, discarded, darg, DjiOthers>>

\* buf = b"" after the _patch call has returned.
DjiClearBuf ==
    /\ dpc = "clear"
    /\ dpc' = "recv"
    /\ buf' = BufAfterConnect(buf)
    /\ dropped' = FALSE
    /\ old' = Len(buf')
    /\ discarded' = (discarded \/ (buf # <<>> /\ buf' = <<>>))
    /\ UNCHANGED <<sock, lostOnce, exc, darg, storeVars, snap, shared, DjiOthers>>

\* chunk = s.recv(4096) returns bytes; buf += chunk
DjiRecv ==
    /\ dpc = "recv"
    /\ \E chunk \in Chunks :
          /\ Len(Residual(buf \o chunk)) <= MaxPartial
          /\ buf' = buf \o chunk
    /\ dpc' = AfterLine(buf')
    /\ UNCHANGED <<sock, dropped, lostOnce, exc, old, discarded, darg, storeVars, snap, shared, DjiOthers>>

\* s.recv returns b"" (raise ConnectionError), or raises socket.timeout or
\* another OSError.
DjiRecvLost ==
    /\ dpc = "recv"
    /\ \E e \in {"ConnectionError", "socket.timeout", "OSError"} :
          /\ exc' = e
          /\ dpc' = Raised(e)
    /\ lostOnce' = TRUE
    /\ old' = Len(buf)
    /\ UNCHANGED <<sock, buf, dropped, discarded, darg, storeVars, snap, shared, DjiOthers>>

\* Where _run continues after a line with the given outcome, rest being the
\* buffer behind it: an exception that no except clause names ends the thread.
\* AfterOutcomeNoExcept is the faulty variant in which JSONDecodeError is not caught.
AfterOutcomeNoExcept(kind, rest) ==
    IF kind \in {"raise", "drop"} THEN "dead" ELSE AfterLine(rest)
AfterOutcome(kind, rest) ==
    IF kind = "raise" THEN "dead" ELSE AfterLine(rest)

\* One pass of `while b"\n" in buf`, up to the first statement of _patch.
DjiSplit ==
    /\ dpc = "split"
    /\ ~DjiInPatch
    /\ LET out == LineOutcome(buf) IN
          /\ buf' = TailBuf(buf)
          /\ old' = IF old > FirstNL(buf) THEN old - FirstNL(buf) ELSE 0
          /\ dropped' = (dropped \/ out.kind = "drop")
          /\ IF out.kind = "patch"
             THEN PatchBegin(out.updates) /\ UNCHANGED dpc
             ELSE /\ dpc' = AfterOutcome(out.kind, buf')
                  /\ UNCHANGED <<storeVars, snap, shared>>
    /\ UNCHANGED <<sock, lostOnce, exc, discarded, darg, DjiOthers>>

\* The second statement of the _patch call made by _apply_frame.
DjiSplitPatchEnd ==
    /\ dpc = "split"
    /\ PatchEnd
    /\ dpc' = AfterLine(buf)
    /\ UNCHANGED <<sock, buf, dropped, lostOnce, exc, old, discarded, darg, DjiOthers>>

\* except (ConnectionError, OSError, socket.timeout):
\*     _patch(connecting=False, connected=False)
\* The call returns with the lock released and the socket not yet closed.
DjiExceptPatch ==
    /\ dpc = "except"
    /\ \/ /\ PatchBegin([connecting |-> FALSE, connected |-> FALSE])
          /\ UNCHANGED dpc
       \/ /\ PatchEnd
          /\ dpc' = "close"
    /\ UNCHANGED <<sock, buf, dropped, lostOnce, exc, old, discarded, darg, DjiOthers>>

\* try: s.close() / except Exception: pass
DjiClose ==
    /\ dpc = "close"
    /\ dpc' = "sleep"
    /\ sock' = "closed"
    /\ UNCHANGED <<buf, dropped, lostOnce, exc, old, discarded, darg, storeVars, snap, shared, DjiOthers>>

\* time.sleep(DJI_RECONNECT_S) returns and the except clause ends, which
\* unbinds exc; the outer loop starts over.
\* AfterSleepStop is the faulty variant in which the outer loop is left.
AfterSleepStop(x) == "dead"
AfterSleep(x) == "top"
DjiSleep ==
    /\ dpc = "sleep"
    /\ dpc' = AfterSleep(dpc)
    /\ exc' = "none"
    /\ UNCHANGED <<sock, buf, dropped, lostOnce, old, discarded, darg, storeVars, snap, shared, DjiOthers>>

DjiTick ==
    /\ Tick
    /\ UNCHANGED <<readerVars, wsVars, djiVars, mavVars, prodVars, DRONE_TYPE>>

\* DRONE_TYPE is "dji": the thread starts in _run with buf = b"".
InitDji ==
    /\ dpc = "top"
    /\ sock = "none"
    /\ buf = <<>>
    /\ dropped = FALSE
    /\ lostOnce = FALSE
    /\ exc = "none"
    /\ old = 0
    /\ discarded = FALSE
    /\ darg = None

\* DRONE_TYPE is not "dji".
InitDjiOff ==
    /\ dpc = "off"
    /\ sock = "none"
    /\ buf = <<>>
    /\ dropped = FALSE
    /\ lostOnce = FALSE
    /\ exc = "none"
    /\ old = 0
    /\ discarded = FALSE
    /\ darg = None

----------------------------------------------------------------------------
(* _start_mavsdk_backend: _telemetry_loop on the helios-mavsdk thread's     *)
(* event loop                                                              *)

\* A float a telemetry stream delivers: the decimal it is nearest to, in
\* tenths of the last digit the producer keeps, and on which side of that
\* decimal the binary value lies (-1 below, 0 exactly on it, 1 above).
Float(x, e) == [tenths |-> x, err |-> e]

\* round(v, n) on a float: the result is the neighbour nearest to the binary
\* value of v, so a float written as a decimal tie goes to the side its
\* binary value lies on (round(0.015, 2) is 0.01, round(0.025, 2) is 0.03),
\* and only a float that is the tie exactly goes to the even neighbour
\* (round(0.125, 2) is 0.12, round(0.375, 2) is 0.38).
Round(v) ==
    LET q == v.tenths \div 10
        r == v.tenths % 10
    IN  IF r < 5 THEN q
        ELSE IF r > 5 THEN q + 1
        ELSE IF v.err < 0 THEN q
        ELSE IF v.err > 0 THEN q + 1
        ELSE IF q % 2 = 0 THEN q ELSE q + 1

\* The digits a _stream_* coroutine keeps of field f.
Digits(f) ==
    IF f \in {"latitude_deg", "longitude_deg"} THEN 7
    ELSE IF f = "remaining_percent" THEN 4
    ELSE 2

\* The side on which the binary value of the float lies that is written
\* x tenths of the last of n digits: 0.008, 0.012, 0.005 and 1.25e-06 lie
\* above their decimal, 0.015, 1.2e-07 and 5e-08 below, 0.125 is exact.
Side(x, n) ==
    CASE x = 8   -> 1
      [] x = 12  -> IF n = 7 THEN -1 ELSE 1
      [] x = 15  -> -1
      [] x = 5   -> IF n = 7 THEN -1 ELSE 1
      [] x = 125 -> IF n = 2 THEN 0 ELSE 1

\* The item whose every field is the float written x tenths of the last
\* digit kept of that field.
ItemOf(g, x) == [f \in GroupFields(g) |-> Float(x, Side(x, Digits(f)))]

\* The items the MAVSDK telemetry streams deliver: for position 1.2 and 12.5
\* units of the last digit kept, for attitude 0.8 and 0.5 units, for battery
\* 1.5 units.
RawItems(g) ==
    CASE g = "position" -> {ItemOf(g, 12), ItemOf(g, 125)}
      [] g = "attitude" -> {ItemOf(g, 8), ItemOf(g, 5)}
      [] g = "battery"  -> {ItemOf(g, 15)}

\* The dict a _stream_* coroutine builds from an item.
Rounded(g, item) == [f \in GroupFields(g) |-> Round(item[f])]

MavOthers == <<rpc, rkeys, wsVars, djiVars, prodVars, DRONE_TYPE>>

\* await drone.connect(system_address=DRONE_ADDRESS)
MavConnect ==
    /\ mpc = "connect"
    /\ mpc' = "wait"
    /\ connects' = connects + 1
    /\ UNCHANGED <<producers, heard, marg, storeVars, snap, shared, MavOthers>>

\* connection_state() delivers a state whose is_connected is false.
MavNotConnected ==
    /\ mpc = "wait"
    /\ heard' = "false"
    /\ UNCHANGED <<mpc, producers, connects, marg, storeVars, snap, shared, MavOthers>>

\* connection_state() delivers is_connected = true: _wait_for_connection returns.
MavIsConnected ==
    /\ mpc = "wait"
    /\ heard' = "true"
    /\ mpc' = "connected"
    /\ UNCHANGED <<producers, connects, marg, storeVars, snap, shared, MavOthers>>

\* connection_state() ends: the async for is exhausted and
\* _wait_for_connection returns.
MavStateStreamEnds ==
    /\ mpc = "wait"
    /\ heard' = "end"
    /\ mpc' = "connected"
    /\ UNCHANGED <<producers, connects, marg, storeVars, snap, shared, MavOthers>>

\* asyncio.wait_for raises TimeoutError after TIMEOUT seconds.
MavTimeout ==
    /\ mpc = "wait"
    /\ mpc' = "timeout"
    /\ heard' = "timeout"
    /\ UNCHANGED <<producers, connects, marg, storeVars, snap, shared, MavOthers>>

\* except asyncio.TimeoutError: _patch(connected=False, connecting=False);
\* the troubleshooting prints; return.
\* AfterTimeoutFallsThrough is the faulty variant in which the handler does not return.
AfterTimeoutFallsThrough == "connected"
AfterTimeout == "timed_out"

MavTimeoutPatch ==
    /\ mpc = "timeout"
    /\ \/ /\ PatchBegin([connected |-> FALSE, connecting |-> FALSE])
          /\ UNCHANGED mpc
       \/ /\ PatchEnd
          /\ mpc' = AfterTimeout
    /\ UNCHANGED <<producers, heard, connects, marg, MavOthers>>

\* started_at=datetime.now(timezone.utc).isoformat(): the argument is
\* evaluated before _patch is entered.
MavConnectedArgs ==
    /\ mpc = "connected"
    /\ marg' = now
    /\ mpc' = "announce"
    /\ UNCHANGED <<producers, heard, connects, storeVars, snap, shared, MavOthers>>

\* _patch(connected=True, connecting=False, started_at=...) with the argument
\* already evaluated.
MavConnectedPatch ==
    /\ mpc = "announce"
    /\ \/ /\ PatchBegin([connected |-> TRUE, connecting |-> FALSE, started_at |-> marg])
          /\ UNCHANGED mpc
       \/ /\ PatchEnd
          /\ mpc' = "rates"
    /\ UNCHANGED <<producers, heard, connects, marg, MavOthers>>

\* The set_rate_* calls all succeed.
MavRatesSet ==
    /\ mpc = "rates"
    /\ mpc' = "settle"
    /\ UNCHANGED <<producers, heard, connects, marg, storeVars, snap, shared, MavOthers>>

\* A set_rate_* call raises: the warning is printed and the loop goes on.
MavRatesFail ==
    /\ mpc = "rates"
    /\ mpc' = "settle"
    /\ UNCHANGED <<producers, heard, connects, marg, storeVars, snap, shared, MavOthers>>

\* await asyncio.sleep(2); asyncio.gather starts the three coroutines.
MavSettle ==
    /\ mpc = "settle"
    /\ mpc' = "streaming"
    /\ producers' = [g \in Groups |-> "running"]
    /\ UNCHANGED <<heard, connects, marg, storeVars, snap, shared, MavOthers>>

\* A _stream_* coroutine receives an item and calls _patch; no other
\* coroutine of the event loop runs inside the call.
MavProduce(g) ==
    /\ mpc \in {"streaming", "failing"}
    /\ producers[g] = "running"
    /\ \E item \in RawItems(g) :
          PatchBegin([k \in {g} |-> Rounded(g, item)])
    /\ producers' = [producers EXCEPT ![g] = "patching"]
    /\ UNCHANGED <<mpc, heard, connects, marg, MavOthers>>

MavProduceEnd(g) ==
    /\ mpc \in {"streaming", "failing"}
    /\ producers[g] = "patching"
    /\ PatchEnd
    /\ producers' = [producers EXCEPT ![g] = "running"]
    /\ UNCHANGED <<mpc, heard, connects, marg, MavOthers>>

\* A telemetry stream ends: its coroutine returns; gather returns when all
\* three have, unless it has raised already.
MavStreamEnds(g) ==
    /\ mpc \in {"streaming", "failing"}
    /\ ~AdapterInPatch
    /\ producers[g] = "running"
    /\ producers' = [producers EXCEPT ![g] = "ended"]
    /\ mpc' = IF mpc = "failing" THEN "failing"
              ELSE IF \A h \in Groups : producers'[h] = "ended"
              THEN "finished" ELSE "streaming"
    /\ UNCHANGED <<heard, connects, marg, storeVars, snap, shared, MavOthers>>

\* A telemetry stream raises: its coroutine ends with the exception and
\* gather (return_exceptions is not set) passes it on to _telemetry_loop.
\* gather cancels nothing, so the other coroutines stay scheduled while the
\* exception travels through the event loop's callbacks.
\* AfterFaultGathered is the faulty variant in which gather collects the
\* exception and _telemetry_loop keeps waiting.
AfterFaultGathered == "streaming"
AfterFault == "failing"

MavStreamFault(g) ==
    /\ mpc \in {"streaming", "failing"}
    /\ ~AdapterInPatch
    /\ producers[g] = "running"
    /\ producers' = [producers EXCEPT ![g] = "raised"]
    /\ mpc' = IF mpc = "failing" THEN "failing" ELSE AfterFault
    /\ UNCHANGED <<heard, connects, marg, storeVars, snap, shared, MavOthers>>

\* _telemetry_loop raises out of loop.run_until_complete, which has stopped
\* the event loop: no coroutine runs any more and _run ends with the
\* exception.
MavLoopStops ==
    /\ mpc = "failing"
    /\ ~AdapterInPatch
    /\ mpc' = "failed"
    /\ UNCHANGED <<producers, heard, connects, marg, storeVars, snap, shared, MavOthers>>

MavTick ==
    /\ Tick
    /\ UNCHANGED <<readerVars, wsVars, djiVars, mavVars, prodVars, DRONE_TYPE>>

\* DRONE_TYPE is not "dji": the thread starts _telemetry_loop.
InitMav ==
    /\ mpc = "connect"
    /\ producers = [g \in Groups |-> "idle"]
    /\ heard = "nothing"
    /\ connects = 0
    /\ marg = None

\* DRONE_TYPE is "dji".
InitMavOff ==
    /\ mpc = "off"
    /\ producers = [g \in Groups |-> "idle"]
    /\ heard = "nothing"
    /\ connects = 0
    /\ marg = None

----------------------------------------------------------------------------
(* Specifications *)

\* DRONE_TYPE with the environment variable unset.
InitDefaultType == DRONE_TYPE = GetDroneType("unset")

\* _start_telemetry_thread: DRONE_TYPE "dji" starts the socket backend,
\* anything else the MAVSDK backend.
InitDjiType == DRONE_TYPE = "dji"
InitMavType == DRONE_TYPE \in DroneTypes \ {"dji"}

InitStoreSpec ==
    InitStore /\ InitReaders /\ InitWs /\ InitDjiOff /\ InitMavOff /\ InitProducers /\ InitDefaultType

NextStore ==
    \/ ServedPatch
    \/ AdapterPatchEnd
    \/ ClockTick
    \/ \E r \in Readers : ReaderGet(r)
    \/ \E r \in Readers : ReaderAddConfig(r)
    \/ \E r \in Readers : ReaderRespond(r)

SpecStore == InitStoreSpec /\ [][NextStore]_vars

\* The store and its writer alone.
NextPatch ==
    \/ AdapterPatch
    \/ AdapterPatchEnd
    \/ ClockTick

SpecPatch == InitStoreSpec /\ [][NextPatch]_vars

NextProducers ==
    \/ \E p \in Producers : ProducerCall(p)
    \/ \E p \in Producers : ProducerEnter(p)
    \/ \E p \in Producers : ProducerStamp(p)
    \/ ProducerTick

SpecProducers == InitStoreSpec /\ [][NextProducers]_vars

InitWsSpec ==
    InitStore /\ InitReaders /\ InitWs /\ InitDjiOff /\ InitMavOff /\ InitProducers /\ InitDefaultType

NextWs ==
    \/ WsAdapterPatch
    \/ AdapterPatchEnd
    \/ ClockTick
    \/ \E s \in Sessions : WsOpen(s)
    \/ \E s \in Sessions : WsReceive(s)
    \/ \E s \in Sessions : WsFilter(s)
    \/ \E s \in Sessions : WsSnapshot(s)
    \/ \E s \in Sessions : WsSendOk(s)
    \/ \E s \in Sessions : WsSendFail(s)

SpecWs == InitWsSpec /\ [][NextWs]_vars

InitDjiSpec ==
    InitStore /\ InitReaders /\ InitWs /\ InitDji /\ InitMavOff /\ InitProducers /\ InitDjiType

NextDji ==
    \/ DjiTopPatch
    \/ DjiConnectOk
    \/ DjiConnectFail
    \/ DjiConnectedArgs
    \/ DjiConnectedPatch
    \/ DjiClearBuf
    \/ DjiRecv
    \/ DjiRecvLost
    \/ DjiSplit
    \/ DjiSplitPatchEnd
    \/ DjiExceptPatch
    \/ DjiClose
    \/ DjiSleep
    \/ DjiTick

SpecDji == InitDjiSpec /\ [][NextDji]_vars

InitMavSpec ==
    InitStore /\ InitReaders /\ InitWs /\ InitDjiOff /\ InitMav /\ InitProducers /\ InitMavType

NextMav ==
    \/ MavConnect
    \/ MavNotConnected
    \/ MavIsConnected
    \/ MavStateStreamEnds
    \/ MavTimeout
    \/ MavTimeoutPatch
    \/ MavConnectedArgs
    \/ MavConnectedPatch
    \/ MavRatesSet
    \/ MavRatesFail
    \/ MavSettle
    \/ \E g \in Groups : MavProduce(g)
    \/ \E g \in Groups : MavProduceEnd(g)
    \/ \E g \in Groups : MavStreamEnds(g)
    \/ \E g \in Groups : MavStreamFault(g)
    \/ MavLoopStops
    \/ MavTick

SpecMav == InitMavSpec /\ [][NextMav]_vars

\* _start_telemetry_thread: DRONE_TYPE decides which one of the two backend
\* threads is started.
InitBackend ==
    \/ InitDjiType /\ InitDji /\ InitMavOff
    \/ InitMavType /\ InitDjiOff /\ InitMav

InitServeSpec ==
    InitStore /\ InitReaders /\ InitWs /\ InitProducers /\ InitBackend

\* The backend that was started, and a REST handler thread.
NextServe ==
    \/ NextDji
    \/ NextMav
    \/ ReaderGet(1)
    \/ ReaderAddConfig(1)
    \/ ReaderRespond(1)

SpecServe == InitServeSpec /\ [][NextServe]_vars

\* The clients of the whole process in this model: requests to /api/status,
\* and one /ws/telemetry client whose subscription to a flag and a group
\* (the filter keeps the group) is what ws.receive returns in every turn of
\* the loop.
ProcessCalls == {StatusKeys}
ProcessMessages == {<<"{\"subscribe\": [\"connected\", \"battery\"]}">>}
ProcessSessions == {"ws1"}

\* The whole process: the backend that was started, a REST handler thread
\* and a telemetry session, all running side by side. A request or a
\* session is admitted whatever the other threads are doing.
NextProcess ==
    \/ NextDji
    \/ NextMav
    \/ ReaderGetOf(1, ProcessCalls)
    \/ ReaderAddConfig(1)
    \/ ReaderRespond(1)
    \/ \E s \in ProcessSessions : WsOpen(s)
    \/ \E s \in ProcessSessions : WsReceiveOf(s, ProcessMessages)
    \/ \E s \in ProcessSessions : WsFilter(s)
    \/ \E s \in ProcessSessions : WsSnapshot(s)
    \/ \E s \in ProcessSessions : WsSendOk(s)
    \/ \E s \in ProcessSessions : WsSendFail(s)

SpecProcess == InitServeSpec /\ [][NextProcess]_vars

\* The thread is scheduled again whenever it can run on (a _patch call, the
\* close, the end of the sleep), and a bridge that keeps listening accepts one
\* of the connection attempts.
DjiRunsOn ==
    \/ DjiTopPatch
    \/ DjiConnectedArgs
    \/ DjiConnectedPatch
    \/ DjiClearBuf
    \/ DjiExceptPatch
    \/ DjiClose
    \/ DjiSleep

SpecDjiLive ==
    /\ SpecDji
    /\ WF_vars(DjiRunsOn)
    /\ SF_vars(DjiConnectOk)

----------------------------------------------------------------------------
(* Properties of the store *)

AllKeys == {"position", "attitude", "battery", "last_updated"}

\* C1: every dict a reader obtains from _get_snapshot equals the store as it
\* stood when _patch last released the lock, on the keys asked for: no reader
\* sees the groups of a patch without its last_updated stamp, or part of them.
C1_AtomicSnapshot ==
    [][\A r \in Readers :
          (rpc[r] = "idle" /\ rpc'[r] = "respond")
              => snap'[r] = _get_snapshot(rkeys'[r], committed)]_vars

\* A reader holds a full telemetry snapshot stamped 0 that shows a patched
\* position while the adapter is inside a later _patch call.
C1_Witness ==
    \E r \in Readers :
        /\ rpc[r] = "respond"
        /\ AdapterInPatch
        /\ DOMAIN snap[r] = {"position", "attitude", "battery", "last_updated"}
        /\ snap[r]["last_updated"] = 0
        /\ snap[r]["position"] # InitialState["position"]
        /\ _state # committed

\* C2: once a _patch call has returned, _get_snapshot gives for every key the
\* value of the latest call that named it (the initial value if none did) and
\* for last_updated the clock value of the latest call.
C2_LastWriterWins ==
    ~AdapterInPatch =>
        \A keys \in GetCalls \cup {<<>>} :
            _get_snapshot(keys, _state) =
                [k \in (IF keys = <<>> THEN DOMAIN InitialState ELSE SeqToSet(keys)) |->
                    IF k = "last_updated" THEN stamped ELSE named[k]]

\* Several calls have returned: the connect call at time 0, a later call at
\* time 1, and the position group has been overwritten by the partial reading.
C2_Witness ==
    /\ ~AdapterInPatch
    /\ _state["started_at"] = 0
    /\ stamped = 1
    /\ _state["connecting"] = TRUE
    /\ _state["position"]["latitude_deg"] = 2
    /\ _state["battery"] # InitialState["battery"]

\* C3: a _patch call changes only the keys it names and last_updated; every
\* other top-level key has, when the call returns, the value it had before.
C3_PatchFrame ==
    [][(AdapterInPatch /\ _lock' = "free") =>
          /\ DOMAIN _state' = DOMAIN committed
          /\ \A k \in DOMAIN committed \ (DOMAIN call \cup {"last_updated"}) :
                _state'[k] = committed[k]]_vars

\* A call naming only battery is in progress on a store whose position and
\* attitude hold readings: they are still there.
C3_Witness ==
    /\ AdapterInPatch
    /\ DOMAIN call = {"battery"}
    /\ _state["position"] \in Readings("position")
    /\ _state["attitude"] \in Readings("attitude")
    /\ committed["battery"] = InitialState["battery"]

\* C13: the second statement of every _patch call, status-only calls
\* included, sets last_updated to the clock value of that moment, and with a
\* clock that never goes back the values last_updated takes never decrease,
\* whichever of several threads calling _patch gets the lock first.
C13_StampMonotone ==
    [][/\ (_lock # "free" /\ _lock' = "free") => _state'["last_updated"] = now
       /\ _state'["last_updated"] >= _state["last_updated"]]_vars

\* A thread that made a status-only call at time 0 is inside _patch at time 1,
\* after the other thread's call, made later, stamped 1.
C13_Witness ==
    \E p \in Producers :
        /\ ppc[p] = "stamp"
        /\ DOMAIN pkw[p] = {"connected", "connecting"}
        /\ pseen[p] = 0
        /\ now = 1
        /\ _state["last_updated"] = 1

\* No _patch call has been entered yet.
BeforeAnyPatch == stamped = None /\ call = NoCall

\* C14: before the first _patch call both flags of the store are false and
\* started_at, last_updated and every field of position, attitude and battery
\* are null.
C14_InitialAllNull ==
    BeforeAnyPatch =>
        /\ _state["connected"] = FALSE
        /\ _state["connecting"] = FALSE
        /\ _state["started_at"] = None
        /\ _state["last_updated"] = None
        /\ \A g \in Groups : \A f \in GroupFields(g) : _state[g][f] = None

\* C15: one of the two backend threads is started and the other is not; the
\* store changes only in the two statements of a _patch call of that thread;
\* no step of a session (receive, filter, _get_snapshot, send) and no step of
\* a REST handler, api_status writing its three entries into the dict it got
\* included, changes the store.
C15_OnlyBackendWrites ==
    /\ []((dpc = "off") # (mpc = "off"))
    /\ [][/\ (_state' # _state) => (_lock' = "adapter" \/ _lock = "adapter")
          /\ (\E r \in Readers : rpc'[r] # rpc[r]) => _state' = _state
          /\ (\E c \in Sessions : wspc'[c] # wspc[c]) => _state' = _state]_vars

\* A session is inside ws.send with the frame its filter asked for, and at
\* the same time api_status holds its dict with the three entries written
\* into it, both taken from a store the socket backend has patched; the
\* MAVSDK backend was not started and the store has no such entry.
C15_Witness ==
    /\ wspc["ws1"] = "send"
    /\ DOMAIN wsnap["ws1"] = {"battery", "last_updated"}
    /\ wsnap["ws1"]["last_updated"] # None
    /\ mpc = "off"
    /\ \E r \in Readers :
          /\ rpc[r] = "reply"
          /\ snap[r]["backend"] = "dji"
          /\ snap[r]["connected"] = TRUE
    /\ _state["connected"] = TRUE
    /\ DOMAIN _state = DOMAIN InitialState

\* C12: a dict returned by _get_snapshot shows the same contents, group
\* fields included, for as long as the handler holds it, whatever _patch
\* calls the backend makes meanwhile.
C12_SnapshotIsStable ==
    [][\A r \in Readers :
          (rpc[r] = "respond" /\ rpc'[r] = "respond") => snap'[r] = snap[r]]_vars

\* A handler holds a snapshot taken before any telemetry arrived; position
\* and attitude have been patched since, so the store no longer refers to the
\* snapshot's group objects, and the snapshot still shows nulls.
C12_Witness ==
    \E r \in Readers :
        /\ rpc[r] = "respond"
        /\ DOMAIN snap[r] = AllKeys
        /\ snap[r]["position"] = InitialState["position"]
        /\ snap[r]["attitude"] = InitialState["attitude"]
        /\ _state["position"] = GroupOf("position", 1)
        /\ _state["attitude"] = GroupOf("attitude", 1)
        /\ shared[r] = {"battery"}
        /\ ~AdapterInPatch

----------------------------------------------------------------------------
(* Properties of the distribution sessions *)

MsgPosition == "{\"subscribe\": [\"position\"]}"
MsgAll      == "{\"subscribe\": [\"all\"]}"
MsgBogus    == "{\"subscribe\": [\"bogus\"]}"
MsgEmpty    == "{\"subscribe\": []}"

OnlyPosition == FieldsList(<<"position">>)

\* The session is about to push the frame json.dumps(wsnap[s]).
Pushing(s) == wspc[s] = "send"

\* The session runs the try block on a received text.
Processes(s, text) ==
    wspc[s] = "filter" /\ msg[s] = <<text>> /\ wspc'[s] = "snapshot"

\* C4: processing {"subscribe": ["position"]} sets the session's filter to
\* position; while that filter stands every frame pushed has exactly the keys
\* position and last_updated; the filter stands until the session processes a
\* later message (or ends); processing {"subscribe": ["all"]} sets the filter
\* under which every frame has position, attitude, battery and last_updated.
C4_SubscribeFilter ==
    /\ [][\A s \in Sessions :
            /\ Processes(s, MsgPosition) => fields'[s] = OnlyPosition
            /\ Processes(s, MsgAll) => fields'[s] = FieldsNone
            /\ (fields'[s] # fields[s]) =>
                  \/ wspc[s] = "filter" /\ MsgTruthy(msg[s])
                  \/ wspc'[s] = "closed"]_vars
    /\ [](\A s \in Sessions :
            Pushing(s) =>
               /\ fields[s] = OnlyPosition =>
                     DOMAIN wsnap[s] = {"position", "last_updated"}
               /\ fields[s] = FieldsNone => DOMAIN wsnap[s] = AllKeys)

\* A session filtered to position pushes a frame holding a position reading
\* and a stamp, nothing else.
C4_Witness ==
    \E s \in Sessions :
        /\ Pushing(s)
        /\ fields[s] = OnlyPosition
        /\ DOMAIN wsnap[s] = {"position", "last_updated"}
        /\ wsnap[s]["position"] \in Readings("position")
        /\ wsnap[s]["last_updated"] # None

\* C5: under the empty filter that is not None, which a subscribe list
\* without "all" and without a valid name leaves the session with, every
\* frame pushed holds last_updated only.
C5_EmptyFilterOnlyStamp ==
    \A s \in Sessions :
        (Pushing(s) /\ fields[s] = FieldsList(<<>>))
            => DOMAIN wsnap[s] = {"last_updated"}

\* C10: a failed send ends the loop of that session alone: the store, and the
\* position, filter and snapshot of every other session, are as before, the
\* backend can still patch and a session that was pushing still can; a filter
\* change in one session leaves every other session's filter and frame alone,
\* and the keys of a pushed frame are those of the pushing session's filter.
C10_SessionsIndependent ==
    /\ [][\A s \in Sessions :
            /\ (Pushing(s) /\ wspc'[s] = "closed") =>
                  /\ UNCHANGED storeVars
                  /\ \A t \in Sessions \ {s} :
                        /\ wspc'[t] = wspc[t]
                        /\ fields'[t] = fields[t]
                        /\ wsnap'[t] = wsnap[t]
                        /\ msg'[t] = msg[t]
            /\ (fields'[s] # fields[s]) =>
                  \A t \in Sessions \ {s} :
                        /\ fields'[t] = fields[t]
                        /\ wsnap'[t] = wsnap[t]]_vars
    /\ [](\A s \in sendFailed :
            /\ ENABLED WsAdapterPatch \/ ENABLED AdapterPatchEnd
            /\ \A t \in Sessions \ {s} :
                  Pushing(t) =>
                     /\ ENABLED WsSendOk(t)
                     /\ DOMAIN wsnap[t] = SeqToSet(SnapshotKeys(fields[t])))

\* One session has ended on a failed send while the other, filtered to
\* position, is pushing a position frame and the backend is inside _patch.
C10_Witness ==
    \E s \in Sessions, t \in Sessions :
        /\ s # t
        /\ s \in sendFailed
        /\ wspc[s] = "closed"
        /\ Pushing(t)
        /\ fields[t] = OnlyPosition
        /\ DOMAIN wsnap[t] = {"position", "last_updated"}
        /\ AdapterInPatch

\* C11: a session that is in ws.receive, or in ws.send and the sleep behind
\* it, does not hold _lock; while a session stays in ws.send, however long,
\* the backend's _patch can be entered or finished, and another session that
\* is about to call _get_snapshot can do so as soon as no _patch is under way.
C11_NoLockWhileBlocked ==
    /\ _lock \notin Sessions
    /\ \A s \in Sessions :
          Pushing(s) =>
             /\ ENABLED WsAdapterPatch \/ ENABLED AdapterPatchEnd
             /\ \A t \in Sessions \ {s} :
                   wspc[t] = "snapshot" =>
                      ENABLED WsSnapshot(t) \/ ENABLED AdapterPatchEnd

\* One session is in ws.send holding a frame, the other is about to call
\* _get_snapshot, and the lock is free.
C11_Witness ==
    \E s \in Sessions, t \in Sessions :
        /\ s # t
        /\ Pushing(s)
        /\ DOMAIN wsnap[s] = AllKeys
        /\ wsnap[s]["last_updated"] # None
        /\ wspc[t] = "snapshot"
        /\ _lock = "free"

\* The message parses as a JSON object whose "subscribe" value is a list.
HasSubscribeList(m) ==
    /\ MsgTruthy(m)
    /\ LET payload == json_loads(m[1]) IN
          /\ payload # JSONDecodeError
          /\ payload.t = "obj"
          /\ "subscribe" \in DOMAIN payload.v
          /\ payload.v["subscribe"].t = "list"

\* C20: handling a received message leaves `fields` as it was unless the
\* message is a JSON object with a list under "subscribe": text that is no
\* JSON, JSON that is no object, an object without "subscribe", and a
\* "subscribe" value that is no list all keep the filter set before.
C20_OnlySubscribeListChangesFilter ==
    [][\A s \in Sessions :
          (wspc[s] = "filter" /\ wspc'[s] = "snapshot" /\ ~HasSubscribeList(msg[s]))
              => fields'[s] = fields[s]]_vars

\* C21: whatever messages a session has received, `fields` is None or a list
\* of names out of position, attitude, battery, and the dict it is about to
\* send holds last_updated and beside it only those groups: connected,
\* connecting and started_at never reach a client of the stream.
C21_StreamKeysBounded ==
    \A s \in Sessions :
        /\ fields[s].is_none \/ SeqToSet(fields[s].items) \subseteq ValidNames
        /\ Pushing(s) =>
              /\ "last_updated" \in DOMAIN wsnap[s]
              /\ DOMAIN wsnap[s] \subseteq ValidNames \cup {"last_updated"}

\* A session that asked for connected and battery is about to send a frame
\* with battery and last_updated alone, while the store says connected.
C21_Witness ==
    \E s \in Sessions :
        /\ Pushing(s)
        /\ fields[s] = FieldsList(<<"battery">>)
        /\ DOMAIN wsnap[s] = {"battery", "last_updated"}
        /\ _state["connected"] = TRUE

----------------------------------------------------------------------------
(* Properties of the socket-line backend *)

DjiPhases ==
    {"top", "connect", "connected", "announce", "clear", "recv", "split",
     "except", "close", "sleep"}

\* The loop body is about to take the first line of buf.
AtLine == dpc = "split" /\ ~DjiInPatch

\* The loop body takes the first line of buf.
TakesLine == AtLine /\ buf' # buf

\* C6: the helios-dji thread never ends: whatever the bridge sends and however
\* connects and reads fail, _run is in its connecting, reading or backoff
\* phase.
C6_NeverTerminal == dpc \in DjiPhases

\* C7: a line on which json.loads raises JSONDecodeError is dropped: the
\* store, the socket and the connection flags stay as they are and _run goes
\* on reading; a line holding a frame with a group is merged into the store
\* by the same loop, also after a dropped line on the same connection.
C7_MalformedLineDropped ==
    [][TakesLine =>
          /\ LineOutcome(buf).kind = "drop" =>
                /\ UNCHANGED storeVars
                /\ sock' = sock
                /\ dpc' \in {"split", "recv"}
                /\ buf' = TailBuf(buf)
          /\ LineOutcome(buf).kind = "patch" =>
                /\ \A g \in DOMAIN LineOutcome(buf).updates :
                      _state'[g] = LineOutcome(buf).updates[g]
                /\ sock' = sock]_vars

\* After "not-json" was dropped the battery frame behind it is being merged:
\* the socket is open and the store says connected.
C7_Witness ==
    /\ dropped
    /\ dpc = "split"
    /\ DjiInPatch
    /\ DOMAIN call = {"battery"}
    /\ _state["battery"] = GroupOf("battery", 1)
    /\ sock = "open"
    /\ _state["connected"] = TRUE

\* A read on the open socket has failed or returned b"".
ConnectionLost == dpc = "except" /\ sock = "open"

\* C8: after a lost connection the store comes to say connecting and not
\* connected, and the thread by itself comes to be connected again with the
\* store saying so; from then on a line holding a frame is merged as before.
C8_Reconnects ==
    /\ ConnectionLost ~>
          (dpc = "connect" /\ _state["connecting"] = TRUE
                           /\ _state["connected"] = FALSE)
    /\ ConnectionLost ~>
          (dpc = "recv" /\ sock = "open" /\ _state["connected"] = TRUE
                        /\ _state["connecting"] = FALSE)
    /\ [][(lostOnce /\ TakesLine /\ LineOutcome(buf).kind = "patch") =>
             /\ _lock' = "adapter"
             /\ \A g \in DOMAIN LineOutcome(buf).updates :
                   _state'[g] = LineOutcome(buf).updates[g]]_vars

\* On a connection made after one was lost, a position frame is being merged.
C8_Witness ==
    /\ lostOnce
    /\ dpc = "split"
    /\ DjiInPatch
    /\ "position" \in DOMAIN call
    /\ sock = "open"
    /\ _state["connected"] = TRUE
    /\ _state["position"] = call["position"]

\* json.loads succeeds on the first line of b.
Decoded(b) ==
    LET line == StripEnds(HeadLine(b)) IN
    /\ line # <<>>
    /\ json_loads_line(line) \notin {JSONDecodeError, UnicodeDecodeError}

\* The groups that are keys of the frame on the first line of b.
GroupsInFrame(b) ==
    LET data == json_loads_line(StripEnds(HeadLine(b))) IN
    IF data.t = "obj" THEN Groups \cap DOMAIN data.v ELSE {}

\* C16: each line on which json.loads succeeds is applied by one _patch call
\* entered in the same pass of the loop, naming exactly the groups that are
\* keys of the frame; the groups the frame lacks keep their stored value, and
\* a snapshot taken by a reader holds every group as it stood when a _patch
\* call last returned, never some groups of a frame without the others.
C16_FrameOnePatch ==
    /\ [][(TakesLine /\ Decoded(buf)) =>
             /\ _lock' = "adapter"
             /\ DOMAIN call' = GroupsInFrame(buf)
             /\ \A g \in GroupsInFrame(buf) : _state'[g] = call'[g]
             /\ \A g \in Groups \ GroupsInFrame(buf) : _state'[g] = _state[g]]_vars
    /\ [][\A r \in Readers :
             (rpc[r] = "idle" /\ rpc'[r] = "respond") =>
                 /\ ~DjiInPatch
                 /\ \A g \in Groups \cap DOMAIN snap'[r] :
                       snap'[r][g] = committed[g]]_vars

\* C19: a failed connect and every kind of failed read (b"" read, socket
\* error, timeout) take _run to its except clause, where it first patches
\* connecting = false, connected = false, then closes the socket, then sleeps,
\* and then is back at the top of the loop, which patches connecting = true,
\* connected = false before connecting; on the way position, attitude and
\* battery stay as stored, and the thread does get back to connecting.
C19_LossPath ==
    /\ [][(exc' # exc /\ exc' # "none") =>
             /\ dpc \in {"connect", "recv"}
             /\ dpc' = "except"
             /\ UNCHANGED storeVars]_vars
    /\ [][dpc = "except" =>
             /\ (~DjiInPatch /\ _lock' = "adapter") =>
                   call' = [connecting |-> FALSE, connected |-> FALSE]
             /\ sock' = sock
             /\ dpc' # dpc =>
                   /\ dpc' = "close"
                   /\ _state'["connecting"] = FALSE
                   /\ _state'["connected"] = FALSE]_vars
    /\ [][dpc = "close" =>
             /\ _state' = _state
             /\ _lock' = _lock
             /\ dpc' # dpc =>
                   /\ dpc' = "sleep"
                   /\ sock' = "closed"]_vars
    /\ [][dpc = "sleep" =>
             /\ _state' = _state
             /\ _lock' = _lock
             /\ sock' = sock
             /\ dpc' # dpc => dpc' = "top"]_vars
    /\ [][dpc = "top" =>
             /\ (~DjiInPatch /\ _lock' = "adapter") =>
                   call' = [connecting |-> TRUE, connected |-> FALSE]
             /\ dpc' # dpc =>
                   /\ dpc' = "connect"
                   /\ _state'["connecting"] = TRUE
                   /\ _state'["connected"] = FALSE]_vars
    /\ [][(dpc \in {"except", "close", "sleep", "top"}) =>
             \A g \in Groups : _state'[g] = _state[g]]_vars
    /\ (dpc = "except") ~> (dpc = "connect" /\ exc = "none")

\* A read has timed out after position and attitude were stored: the except
\* clause has patched the flags and closed the socket, the thread sleeps, and
\* the stored groups are those of the frame.
C19_Witness ==
    /\ dpc = "sleep"
    /\ exc = "socket.timeout"
    /\ sock = "closed"
    /\ _state["connecting"] = FALSE
    /\ _state["connected"] = FALSE
    /\ _state["position"] = GroupOf("position", 1)
    /\ _state["attitude"] = GroupOf("attitude", 1)
    /\ ~DjiInPatch

\* C22: what _apply_frame is given is the first complete line of buf, all of
\* it received on the connection that is open: a read appends to buf and
\* applies nothing, bytes with no b"\n" behind them stay in buf with the store
\* untouched, the lines of buf are taken front to back, and whatever buf held
\* when a connection was lost is cleared once the next one is made.
C22_WholeLinesOfOneConnection ==
    /\ [][TakesLine =>
             /\ HasLine(buf)
             /\ old = 0
             /\ buf' = TailBuf(buf)
             /\ LineOutcome(buf).kind = "patch" => call' = LineOutcome(buf).updates
             /\ LineOutcome(buf).kind # "patch" => _state' = _state]_vars
    /\ [][(dpc = "recv" /\ buf' # buf) =>
             /\ \E chunk \in Chunks : buf' = buf \o chunk
             /\ _state' = _state]_vars
    /\ []((dpc = "recv" /\ ~DjiInPatch) => ~HasLine(buf))
    /\ [][(\E g \in Groups : _state'[g] # _state[g]) => (AtLine /\ HasLine(buf))]_vars
    /\ [][(dpc = "clear" /\ dpc' = "recv") => buf' = <<>>]_vars
    /\ []((dpc \in {"recv", "split"}) => old = 0)

\* Bytes with no newline behind them were in buf when a connection was lost
\* and were cleared on the next connect; on the new connection a whole
\* battery line has arrived and is being applied, with nothing left in buf.
C22_Witness ==
    /\ discarded
    /\ dpc = "split"
    /\ DjiInPatch
    /\ DOMAIN call = {"battery"}
    /\ buf = <<>>
    /\ old = 0
    /\ sock = "open"

----------------------------------------------------------------------------
(* Properties of the stream backend *)

\* wait_for timed out and the except block has run.
TimedOut == heard = "timeout" /\ mpc # "timeout"

\* C9: when the wait for is_connected = true times out, the store is left at
\* connected = false, connecting = false, _telemetry_loop has returned for
\* good, drone.connect was called once and is never called again, no _stream_*
\* coroutine is ever started and no telemetry group is ever patched.
C9_TimeoutIsFinal ==
    /\ [](TimedOut =>
            /\ _state["connected"] = FALSE
            /\ _state["connecting"] = FALSE
            /\ _state["started_at"] = None
            /\ connects = 1
            /\ \A g \in Groups :
                  producers[g] = "idle" /\ _state[g] = InitialState[g])
    /\ [][TimedOut =>
            /\ mpc' = mpc
            /\ connects' = connects
            /\ producers' = producers
            /\ _state' = _state]_vars

\* The timeout has passed, the timeout patch is in the store and the loop
\* has returned.
C9_Witness ==
    /\ TimedOut
    /\ mpc = "timed_out"
    /\ _state["connected"] = FALSE
    /\ _state["connecting"] = FALSE
    /\ _state["last_updated"] = 1
    /\ ~AdapterInPatch

\* C17: the store says connected only after connection_state() has delivered
\* a state whose is_connected is true: while only is_connected = false states
\* have arrived, or once the stream has ended without a true one, connected
\* is never patched to true.
C17_ConnectedOnlyAfterTrue ==
    _state["connected"] = TRUE => heard = "true"

\* _telemetry_loop has reached asyncio.gather.
Streamed == mpc \in {"streaming", "finished", "failing", "failed"}

\* C18: once the three _stream_* coroutines are started, drone.connect is not
\* called again and connecting is never patched back to true; when one of the
\* coroutines raises, the exception is on its way out of _telemetry_loop and
\* nothing but the stop of the event loop ends that; once the loop has
\* stopped no coroutine patches anything, and throughout the store still says
\* connected = true.
C18_MidStreamFaultIsFinal ==
    /\ [](Streamed => _state["connecting"] = FALSE)
    /\ [][Streamed =>
             /\ Streamed'
             /\ connects' = connects
             /\ "connecting" \notin DOMAIN call']_vars
    /\ [][(\E g \in Groups : producers[g] # "raised" /\ producers'[g] = "raised")
             => mpc' = "failing"]_vars
    /\ [][mpc = "failing" => mpc' \in {"failing", "failed"}]_vars
    /\ [](mpc \in {"failing", "failed"} => _state["connected"] = TRUE)
    /\ [](mpc = "failed" =>
             /\ \E g \in Groups : producers[g] = "raised"
             /\ ~AdapterInPatch
             /\ \A g \in Groups : producers[g] # "patching")
    /\ [][mpc = "failed" =>
             /\ _state' = _state
             /\ producers' = producers
             /\ mpc' = mpc]_vars

\* The battery coroutine has raised after position and attitude were patched;
\* the other two coroutines were still running and the store says connected.
C18_Witness ==
    /\ mpc = "failed"
    /\ producers["battery"] = "raised"
    /\ producers["position"] = "running"
    /\ producers["attitude"] = "running"
    /\ _state["position"] # InitialState["position"]
    /\ _state["attitude"] # InitialState["attitude"]
    /\ _state["connected"] = TRUE
    /\ _state["connecting"] = FALSE

----------------------------------------------------------------------------
(* Properties of the status flags *)

\* C23: under the socket backend and under the stream backend alike, through
\* every connect, timeout, fault and reconnect, the store never says connected
\* and connecting at once, inside a _patch call or outside, and neither does
\* any snapshot a handler holds.
C23_NeverBothFlags ==
    /\ ~(_state["connected"] = TRUE /\ _state["connecting"] = TRUE)
    /\ \A r \in Readers :
          {"connected", "connecting"} \subseteq DOMAIN snap[r] =>
              ~(snap[r]["connected"] = TRUE /\ snap[r]["connecting"] = TRUE)

\* The socket thread has lost a connection and made a new one: the store says
\* connected and not connecting, while a handler still holds the status it
\* read during the reconnect, connecting and not connected.
C23_Witness ==
    /\ lostOnce
    /\ dpc = "recv"
    /\ ~DjiInPatch
    /\ _state["connected"] = TRUE
    /\ _state["connecting"] = FALSE
    /\ \E r \in Readers :
          /\ {"connected", "connecting"} \subseteq DOMAIN snap[r]
          /\ snap[r]["connecting"] = TRUE
          /\ snap[r]["connected"] = FALSE

====
